---- MODULE Spec2Model ----
(***************************************************************************)
(* A model of passfs (src/src/lib.rs): the PassFs state (inode_map,        *)
(* open_dirs, open_files, inuse_fhs), one action per Filesystem handler,   *)
(* and the source directory the handlers reach through openat and std::fs. *)
(* A request is handled in one step, to completion (fuser dispatches one   *)
(* request at a time to &mut self).                                        *)
(***************************************************************************)
EXTENDS Integers, Sequences, FiniteSets, TLC

VARIABLES
  inode_map,   \* BTreeMap<Inode, PathBuf>: a function, inode -> path
  open_dirs,   \* BTreeMap<Fh, (Dir, DirIter)>: handle -> [dir, started, rest]
  open_files,  \* BTreeMap<Fh, File>: handle -> [node, pos]
  inuse_fhs,   \* BTreeSet<Fh>
  gone,        \* the source tree: the nodes that have been deleted since the mount
  req,         \* the request the last step handled: the arguments the client sent
  reply,       \* what the last step sent through its Reply* argument
  fscalls,     \* the number of real filesystem calls the last step made
  high_water   \* the most handles that were in inuse_fhs at the same time so far

vars == <<inode_map, open_dirs, open_files, inuse_fhs, gone, req, reply, fscalls,
          high_water>>

\* The PassFs fields.
registers == <<inode_map, open_dirs, open_files, inuse_fhs>>

-----------------------------------------------------------------------------
(* Bounds of the model. *)

\* Handles in use at the same time in the allocator workload, where the client
\* sends the handle arguments 0..MaxOpen, and in the registry workload.
MaxOpen == 2
MaxHeld == 1
\* read: offsets -1..MaxOffset and sizes 0..MaxSize.
MaxOffset == 3
MaxSize == 3
\* read: the first MaxReads calls of File::read deliver at most 1..MaxChunk bytes
\* each, or fail; later calls deliver all that is asked and available.
MaxReads == 1
MaxChunk == 2
\* readdir: the reply buffer holds 1..MaxCap entries.
MaxCap == 2
\* The components of a path that a lookup composes in the path workload.
MaxPath == 2

-----------------------------------------------------------------------------
(* The source tree under the root directory: a directory d that holds a    *)
(* socket s, and a regular file f of two bytes.  A node is named by its    *)
(* path from the root, a sequence of names; <<>> is the root itself.       *)

RootNode == <<>>
NodeD == <<"d">>
NodeF == <<"f">>
NodeS == <<"d", "s">>
TreeNodes == {NodeD, NodeF, NodeS}
Names == {"d", "f", "s"}

\* st_mode & S_IFMT of a node.
ModeOf(n) ==
  CASE n = RootNode -> "S_IFDIR"
    [] n = NodeD -> "S_IFDIR"
    [] n = NodeF -> "S_IFREG"
    [] n = NodeS -> "S_IFSOCK"

\* st_ino of a node: the real inode numbers, none of them 1.
InoOf(n) ==
  CASE n = RootNode -> 5
    [] n = NodeD -> 2
    [] n = NodeF -> 3
    [] n = NodeS -> 4

\* The bytes of a node (st_size is their number).
ContentOf(n) == IF n = NodeF THEN <<10, 20>> ELSE <<>>

\* The names a directory holds, in the order its stream delivers them.
ListingOf(n) ==
  CASE n = RootNode -> <<"d", "f">>
    [] n = NodeD -> <<"s">>
    [] OTHER -> <<>>

Inodes == {1} \cup {InoOf(n) : n \in TreeNodes}
Handles == 0..MaxOpen
\* The handle arguments of the read and readdir workload: the one handle that
\* is allocated there, and one that never is.
IOHandles == {0, 1}

Present(n) == n = RootNode \/ (n \in TreeNodes /\ n \notin gone)

\* A path as the kernel walks it from a directory: "." components stay in place.
Norm(path) == SelectSeq(path, LAMBDA c : c # ".")

Prefix(n, k) == SubSeq(n, 1, k)

\* The outcome of resolving `path` below directory node `base`: [err, node].
\* The first component that is missing gives ENOENT, a component that is walked
\* through (by a name or by ".") without being a directory gives ENOTDIR; `fault` is an error the
\* operating system reports for a reason the tree does not show (EACCES after
\* a chmod, EIO, ...), "none" when there is none.
Resolve(base, path, fault) ==
  LET n == base \o Norm(path)
      bad == {k \in (Len(base) + 1)..Len(n) :
                \/ ~Present(Prefix(n, k))
                \/ (k < Len(n) /\ ModeOf(Prefix(n, k)) # "S_IFDIR")}
      k0 == CHOOSE k \in bad : \A j \in bad : k <= j
      \* a "." that is walked from something that is not a directory
      dots == {j \in 1..Len(path) :
                 /\ path[j] = "."
                 /\ ModeOf(base \o Norm(SubSeq(path, 1, j - 1))) # "S_IFDIR"}
  IN  IF fault # "none" THEN [err |-> fault, node |-> RootNode]
      ELSE IF ~Present(base) THEN [err |-> "ENOENT", node |-> RootNode]
      ELSE IF ModeOf(base) # "S_IFDIR" /\ Len(n) > Len(base)
        THEN [err |-> "ENOTDIR", node |-> RootNode]
      ELSE IF bad = {} /\ dots # {} THEN [err |-> "ENOTDIR", node |-> RootNode]
      ELSE IF bad = {} THEN [err |-> "OK", node |-> n]
      ELSE IF Present(Prefix(n, k0)) THEN [err |-> "ENOTDIR", node |-> RootNode]
      ELSE [err |-> "ENOENT", node |-> RootNode]

\* libc::stat of a node, the fields the program reads.
StatOf(n) == [st_ino |-> InoOf(n), st_mode |-> ModeOf(n), st_size |-> Len(ContentOf(n))]

Faults == {"none", "EACCES"}

-----------------------------------------------------------------------------
(* BTreeMap and BTreeSet. *)

Insert(m, k, v) == [x \in DOMAIN m \cup {k} |-> IF x = k THEN v ELSE m[x]]
Remove(m, k) == [x \in DOMAIN m \ {k} |-> m[x]]
EmptyMap == [x \in {} |-> 0]

\* BTreeSet::iter: the elements in ascending order.
RECURSIVE InOrder(_)
InOrder(S) ==
  IF S = {} THEN <<>>
  ELSE LET m == CHOOSE x \in S : \A y \in S : x <= y
       IN  <<m>> \o InOrder(S \ {m})

\* get_fh without the search for a gap: always the next number.
get_fh_next(inuse) ==
  [fd |-> Cardinality(inuse), inuse_fhs |-> inuse \cup {Cardinality(inuse)}]

\* get_fh without the search for a gap: always one past the largest handle.
get_fh_above(inuse) ==
  LET it == InOrder(inuse)
      fd == IF it = <<>> THEN 0 ELSE it[Len(it)] + 1
  IN  [fd |-> fd, inuse_fhs |-> inuse \cup {fd}]

\* get_fh: enumerate the ordered in-use set, take the first index that differs
\* from the handle at it, the set's length when there is none; insert it.
get_fh(inuse) ==
  LET it == InOrder(inuse)
      gaps == {i \in 0..(Len(it) - 1) : i # it[i + 1]}
      fd == IF gaps = {} THEN Len(it)
            ELSE CHOOSE i \in gaps : \A j \in gaps : i <= j
  IN  [fd |-> fd, inuse_fhs |-> inuse \cup {fd}]

-----------------------------------------------------------------------------
(* Replies. *)

ReplyError(op, e) == [op |-> op, err |-> e, out |-> <<>>]
ReplyWith(op, out) == [op |-> op, err |-> "OK", out |-> out]
NoReply == [op |-> "none", err |-> "OK", out |-> <<>>]

\* A request: the handler and the arguments of it that the program reads (0,
\* "" and {} where the handler has no such argument).
Request(op, ino, name, fh, offset, size, flags) ==
  [op |-> op, ino |-> ino, name |-> name, fh |-> fh, offset |-> offset,
   size |-> size, flags |-> flags]
NoRequest == Request("none", 0, "", 0, 0, 0, {})

\* stat_to_fileattr: the kind from st_mode & S_IFMT, and the fields of FileAttr
\* that the tree distinguishes.
stat_to_fileattr(stat) ==
  LET kind == CASE stat.st_mode = "S_IFSOCK" -> "Socket"
                [] stat.st_mode = "S_IFLNK" -> "Symlink"
                [] stat.st_mode = "S_IFREG" -> "RegularFile"
                [] stat.st_mode = "S_IFBLK" -> "BlockDevice"
                [] stat.st_mode = "S_IFDIR" -> "Directory"
                [] stat.st_mode = "S_IFCHR" -> "CharDevice"
                [] stat.st_mode = "S_IFIFO" -> "NamedPipe"
                [] OTHER -> "RegularFile"
  IN  [ino |-> stat.st_ino, size |-> stat.st_ino, kind |-> kind]

-----------------------------------------------------------------------------
(* The real filesystem calls. *)

\* Dir::metadata(path): fstatat below the directory `base`.
Metadata(base, path, fault) == Resolve(base, path, fault)

\* Dir::sub_dir(path): a descriptor of the directory at `path`.
SubDir(path, fault) ==
  LET r == Resolve(RootNode, path, fault)
  IN  IF r.err = "OK" /\ ModeOf(r.node) # "S_IFDIR"
      THEN [err |-> "ENOTDIR", node |-> RootNode] ELSE r

\* Dir::list_dir("."): the outcome is the operating system's.
ListFaults == {"none", "ENOENT", "EACCES"}

\* Dir::open_file(path): O_RDONLY opens a regular file and a directory; a
\* socket cannot be opened.
OpenFile(path, fault) ==
  LET r == Resolve(RootNode, path, fault)
  IN  IF r.err = "OK" /\ ModeOf(r.node) = "S_IFSOCK"
      THEN [err |-> "ENXIO", node |-> RootNode] ELSE r

-----------------------------------------------------------------------------
(* The handlers. *)

Init ==
  /\ inode_map = Insert(EmptyMap, 1, <<".">>)
  /\ open_dirs = EmptyMap
  /\ open_files = EmptyMap
  /\ inuse_fhs = {}
  /\ gone = {}
  /\ req = NoRequest
  /\ reply = NoReply
  /\ fscalls = 0
  /\ high_water = 0

Min2(a, b) == IF a <= b THEN a ELSE b
Max2(a, b) == IF a >= b THEN a ELSE b

\* The history of inuse_fhs that a step leaves: its largest size so far.
HighWater == high_water' = Max2(high_water, Cardinality(inuse_fhs'))

getattr(ino, fault) ==
  /\ req' = Request("getattr", ino, "", 0, 0, 0, {})
  /\ IF ino \notin DOMAIN inode_map
     THEN /\ reply' = ReplyError("getattr", "ENOENT")
          /\ fscalls' = 0
          /\ UNCHANGED <<registers, gone>>
     ELSE LET metadata == Metadata(RootNode, inode_map[ino], fault)
          IN  /\ fscalls' = 1
              /\ IF metadata.err = "OK"
                 THEN /\ reply' = ReplyWith("getattr",
                                    <<stat_to_fileattr(StatOf(metadata.node))>>)
                      /\ UNCHANGED <<registers, gone>>
                 ELSE /\ reply' = ReplyError("getattr", metadata.err)
                      /\ inode_map' = Remove(inode_map, ino)
                      /\ UNCHANGED <<open_dirs, open_files, inuse_fhs, gone>>
  /\ HighWater

\* lookup that is done once it has replied: the inode is not recorded.
lookup_reply_only(parent, name, fault) ==
  /\ req' = Request("lookup", parent, name, 0, 0, 0, {})
  /\ IF parent # 1 /\ parent \notin DOMAIN inode_map
     THEN /\ reply' = ReplyError("lookup", "ENOENT")
          /\ fscalls' = 0
     ELSE LET path == Append(IF parent = 1 THEN <<>> ELSE inode_map[parent], name)
              metadata == Metadata(RootNode, path, fault)
              fileattr == stat_to_fileattr(StatOf(metadata.node))
          IN  /\ fscalls' = 1
              /\ reply' = IF metadata.err = "OK" THEN ReplyWith("lookup", <<fileattr>>)
                          ELSE ReplyError("lookup", metadata.err)
  /\ UNCHANGED <<registers, gone>>
  /\ HighWater

\* lookup that forgets the parent when the stat fails, as getattr forgets its
\* inode.
lookup_prunes(parent, name, fault) ==
  /\ req' = Request("lookup", parent, name, 0, 0, 0, {})
  /\ IF parent # 1 /\ parent \notin DOMAIN inode_map
     THEN /\ reply' = ReplyError("lookup", "ENOENT")
          /\ fscalls' = 0
          /\ UNCHANGED <<registers, gone>>
     ELSE LET path == Append(IF parent = 1 THEN <<>> ELSE inode_map[parent], name)
              metadata == Metadata(RootNode, path, fault)
              fileattr == stat_to_fileattr(StatOf(metadata.node))
          IN  /\ fscalls' = 1
              /\ IF metadata.err = "OK"
                 THEN /\ reply' = ReplyWith("lookup", <<fileattr>>)
                      /\ inode_map' = Insert(inode_map, fileattr.ino, path)
                      /\ UNCHANGED <<open_dirs, open_files, inuse_fhs, gone>>
                 ELSE /\ reply' = ReplyError("lookup", metadata.err)
                      /\ inode_map' = Remove(inode_map, parent)
                      /\ UNCHANGED <<open_dirs, open_files, inuse_fhs, gone>>
  /\ HighWater

lookup(parent, name, fault) ==
  /\ req' = Request("lookup", parent, name, 0, 0, 0, {})
  /\ IF parent # 1 /\ parent \notin DOMAIN inode_map
     THEN /\ reply' = ReplyError("lookup", "ENOENT")
          /\ fscalls' = 0
          /\ UNCHANGED <<registers, gone>>
     ELSE LET path == Append(IF parent = 1 THEN <<>> ELSE inode_map[parent], name)
              metadata == Metadata(RootNode, path, fault)
              fileattr == stat_to_fileattr(StatOf(metadata.node))
          IN  /\ fscalls' = 1
              /\ IF metadata.err = "OK"
                 THEN /\ reply' = ReplyWith("lookup", <<fileattr>>)
                      /\ inode_map' = Insert(inode_map, fileattr.ino, path)
                      /\ UNCHANGED <<open_dirs, open_files, inuse_fhs, gone>>
                 ELSE /\ reply' = ReplyError("lookup", metadata.err)
                      /\ UNCHANGED <<registers, gone>>
  /\ HighWater

\* opendir that takes the handle before it lists the directory.
opendir_early_fh(ino, fault, lfault) ==
  /\ req' = Request("opendir", ino, "", 0, 0, 0, {})
  /\ IF ino \notin DOMAIN inode_map
     THEN /\ reply' = ReplyError("opendir", "ENOENT")
          /\ fscalls' = 0
          /\ UNCHANGED <<registers, gone>>
     ELSE LET dir == SubDir(inode_map[ino], fault)
              fh == get_fh(inuse_fhs)
          IN  IF dir.err # "OK"
              THEN /\ reply' = ReplyError("opendir", dir.err)
                   /\ fscalls' = 1
                   /\ UNCHANGED <<registers, gone>>
              ELSE IF lfault = "none"
              THEN /\ inuse_fhs' = fh.inuse_fhs
                   /\ open_dirs' = Insert(open_dirs, fh.fd,
                                     [dir |-> dir.node, started |-> FALSE, rest |-> <<>>])
                   /\ reply' = ReplyWith("opendir", <<fh.fd>>)
                   /\ fscalls' = 2
                   /\ UNCHANGED <<inode_map, open_files, gone>>
              ELSE /\ inuse_fhs' = fh.inuse_fhs
                   /\ inode_map' = IF lfault = "ENOENT" THEN Remove(inode_map, ino)
                                   ELSE inode_map
                   /\ reply' = ReplyError("opendir", lfault)
                   /\ fscalls' = 2
                   /\ UNCHANGED <<open_dirs, open_files, gone>>
  /\ HighWater

opendir(ino, fault, lfault) ==
  /\ req' = Request("opendir", ino, "", 0, 0, 0, {})
  /\ IF ino \notin DOMAIN inode_map
     THEN /\ reply' = ReplyError("opendir", "ENOENT")
          /\ fscalls' = 0
          /\ UNCHANGED <<registers, gone>>
     ELSE LET dir == SubDir(inode_map[ino], fault)
              fh == get_fh(inuse_fhs)
          IN  IF dir.err # "OK"
              THEN /\ reply' = ReplyError("opendir", dir.err)
                   /\ fscalls' = 1
                   /\ UNCHANGED <<registers, gone>>
              ELSE IF lfault = "none"
              THEN /\ inuse_fhs' = fh.inuse_fhs
                   /\ open_dirs' = Insert(open_dirs, fh.fd,
                                     [dir |-> dir.node, started |-> FALSE, rest |-> <<>>])
                   /\ reply' = ReplyWith("opendir", <<fh.fd>>)
                   /\ fscalls' = 2
                   /\ UNCHANGED <<inode_map, open_files, gone>>
              ELSE /\ inode_map' = IF lfault = "ENOENT" THEN Remove(inode_map, ino)
                                   ELSE inode_map
                   /\ reply' = ReplyError("opendir", lfault)
                   /\ fscalls' = 2
                   /\ UNCHANGED <<open_dirs, open_files, inuse_fhs, gone>>
  /\ HighWater

\* DirIter::next, the first time: the stream reads the entries the directory
\* holds then (a directory deleted since it was opened reads as empty; "." and
\* ".." are left out by openat).
Fill(od) ==
  IF od.started THEN od
  ELSE [od EXCEPT !.started = TRUE,
                  !.rest = SelectSeq(ListingOf(od.dir),
                                     LAMBDA nm : Present(Append(od.dir, nm)))]

\* Entry::simple_type: the d_type of the entry.
simple_type(n) ==
  CASE ModeOf(n) = "S_IFLNK" -> "Symlink"
    [] ModeOf(n) = "S_IFDIR" -> "Dir"
    [] ModeOf(n) = "S_IFREG" -> "File"
    [] OTHER -> "Other"

\* readdir's match on simple_type.
EntryKind(st) ==
  CASE st = "Symlink" -> "Symlink"
    [] st = "Dir" -> "Directory"
    [] st = "File" -> "RegularFile"
    [] OTHER -> "CharDevice"

\* ReplyDirectory::add: true when the buffer is full, and then the entry is
\* not in the buffer.
ReplyAdd(buf, cap, entry) ==
  [full |-> Len(buf) >= cap,
   buf |-> IF Len(buf) >= cap THEN buf ELSE Append(buf, entry)]

\* The `for entry in diriter` loop of readdir, at the k-th entry this request
\* fetches; the stat of entry number faultAt meets a fault.
RECURSIVE readdir_loop(_, _, _, _, _, _)
readdir_loop(dir, rest, buf, cap, faultAt, k) ==
  IF rest = <<>> THEN [err |-> "OK", out |-> buf, rest |-> rest, calls |-> k]
  ELSE LET file_name == Head(rest)
           metadata == Metadata(dir, <<file_name>>,
                                IF k = faultAt THEN "EACCES" ELSE "none")
           entry == [ino |-> StatOf(metadata.node).st_ino,
                     kind |-> EntryKind(simple_type(Append(dir, file_name))),
                     name |-> file_name]
           added == ReplyAdd(buf, cap, entry)
       IN  IF metadata.err # "OK"
           THEN [err |-> metadata.err, out |-> <<>>, rest |-> Tail(rest), calls |-> k]
           ELSE IF added.full
           THEN [err |-> "OK", out |-> buf, rest |-> Tail(rest), calls |-> k]
           ELSE readdir_loop(dir, Tail(rest), added.buf, cap, faultAt, k + 1)

\* cap: the entries the reply buffer holds; dfault: the fault the stream's first
\* read of the directory meets; faultAt: see readdir_loop.
readdir(fh, offset, cap, dfault, faultAt) ==
  /\ req' = Request("readdir", 0, "", fh, offset, 0, {})
  /\ IF offset < 0
     THEN /\ reply' = ReplyError("readdir", "EINVAL")
          /\ fscalls' = 0
          /\ UNCHANGED <<registers, gone>>
     ELSE IF fh \notin DOMAIN open_dirs
     THEN /\ reply' = ReplyError("readdir", "EBADFD")
          /\ fscalls' = 0
          /\ UNCHANGED <<registers, gone>>
     ELSE LET od == open_dirs[fh]
              r == readdir_loop(od.dir, Fill(od).rest, <<>>, cap, faultAt, 1)
          IN  IF ~od.started /\ dfault # "none"
              THEN /\ reply' = ReplyError("readdir", dfault)
                   /\ fscalls' = 1
                   /\ UNCHANGED <<registers, gone>>
              ELSE /\ open_dirs' = [open_dirs EXCEPT ![fh] =
                                      [Fill(od) EXCEPT !.rest = r.rest]]
                   /\ reply' = IF r.err = "OK" THEN ReplyWith("readdir", r.out)
                               ELSE ReplyError("readdir", r.err)
                   /\ fscalls' = r.calls
                   /\ UNCHANGED <<inode_map, open_files, inuse_fhs, gone>>
  /\ HighWater

releasedir(fh) ==
  /\ req' = Request("releasedir", 0, "", fh, 0, 0, {})
  /\ open_dirs' = Remove(open_dirs, fh)
  /\ inuse_fhs' = inuse_fhs \ {fh}
  /\ reply' = ReplyWith("releasedir", <<>>)
  /\ fscalls' = 0
  /\ UNCHANGED <<inode_map, open_files, gone>>
  /\ HighWater

\* O_APPEND | O_CREAT | O_TRUNC
OpenMask == {"O_APPEND", "O_CREAT", "O_TRUNC"}
FlagSets == {{}, {"O_APPEND"}, {"O_CREAT"}, {"O_TRUNC"}}

\* open that looks the inode up before it looks at the flags.
open_lookup_first(ino, flags, fault) ==
  /\ req' = Request("open", ino, "", 0, 0, 0, flags)
  /\ IF ino \notin DOMAIN inode_map
     THEN /\ reply' = ReplyError("open", "ENOENT")
          /\ fscalls' = 0
          /\ UNCHANGED <<registers, gone>>
     ELSE IF flags \cap OpenMask # {}
     THEN /\ reply' = ReplyError("open", "EROFS")
          /\ fscalls' = 0
          /\ UNCHANGED <<registers, gone>>
     ELSE LET file == OpenFile(inode_map[ino], fault)
              fh == get_fh(inuse_fhs)
          IN  /\ fscalls' = 1
              /\ IF file.err = "OK"
                 THEN /\ inuse_fhs' = fh.inuse_fhs
                      /\ open_files' = Insert(open_files, fh.fd,
                                         [node |-> file.node, pos |-> 0])
                      /\ reply' = ReplyWith("open", <<fh.fd>>)
                      /\ UNCHANGED <<inode_map, open_dirs, gone>>
                 ELSE /\ inode_map' = IF file.err = "ENOENT"
                                      THEN Remove(inode_map, ino) ELSE inode_map
                      /\ reply' = ReplyError("open", file.err)
                      /\ UNCHANGED <<open_dirs, open_files, inuse_fhs, gone>>
  /\ HighWater

open(ino, flags, fault) ==
  /\ req' = Request("open", ino, "", 0, 0, 0, flags)
  /\ IF flags \cap OpenMask # {}
     THEN /\ reply' = ReplyError("open", "EROFS")
          /\ fscalls' = 0
          /\ UNCHANGED <<registers, gone>>
     ELSE IF ino \notin DOMAIN inode_map
     THEN /\ reply' = ReplyError("open", "ENOENT")
          /\ fscalls' = 0
          /\ UNCHANGED <<registers, gone>>
     ELSE LET file == OpenFile(inode_map[ino], fault)
              fh == get_fh(inuse_fhs)
          IN  /\ fscalls' = 1
              /\ IF file.err = "OK"
                 THEN /\ inuse_fhs' = fh.inuse_fhs
                      /\ open_files' = Insert(open_files, fh.fd,
                                         [node |-> file.node, pos |-> 0])
                      /\ reply' = ReplyWith("open", <<fh.fd>>)
                      /\ UNCHANGED <<inode_map, open_dirs, gone>>
                 ELSE /\ inode_map' = IF file.err = "ENOENT"
                                      THEN Remove(inode_map, ino) ELSE inode_map
                      /\ reply' = ReplyError("open", file.err)
                      /\ UNCHANGED <<open_dirs, open_files, inuse_fhs, gone>>
  /\ HighWater

\* read with an `if` for the `while`: one call of File::read.
read_once(node, offset, size, pattern, k, buffer) ==
  LET most == IF k \in DOMAIN pattern THEN pattern[k] ELSE size
      left == Len(ContentOf(node)) - offset
      bytesin == Max2(0, Min2(most, Min2(size, left)))
  IN  IF size = 0
      THEN [err |-> "OK", data |-> <<>>, pos |-> offset, calls |-> k]
      ELSE IF most = 0
      THEN [err |-> "EIO", data |-> <<>>, pos |-> offset, calls |-> k + 1]
      ELSE IF ModeOf(node) = "S_IFDIR"
      THEN [err |-> "EISDIR", data |-> <<>>, pos |-> offset, calls |-> k + 1]
      ELSE [err |-> "OK", data |-> SubSeq(ContentOf(node), offset + 1, offset + bytesin),
            pos |-> offset + bytesin, calls |-> k + 1]

\* The `while pos < buffer.len()` loop of read, at the k-th call of File::read:
\* `offset` is the file's position, `buffer` the bytes read so far.  pattern[k]
\* is the most that call delivers, 0 when it fails.
RECURSIVE read_loop(_, _, _, _, _, _)
read_loop(node, offset, size, pattern, k, buffer) ==
  IF Len(buffer) >= size
  THEN [err |-> "OK", data |-> buffer, pos |-> offset, calls |-> k]
  ELSE LET most == IF k \in DOMAIN pattern THEN pattern[k] ELSE size
           left == Len(ContentOf(node)) - offset
           bytesin == Min2(most, Min2(size - Len(buffer), left))
       IN  IF most = 0
           THEN [err |-> "EIO", data |-> <<>>, pos |-> offset, calls |-> k + 1]
           ELSE IF ModeOf(node) = "S_IFDIR"
           THEN [err |-> "EISDIR", data |-> <<>>, pos |-> offset, calls |-> k + 1]
           ELSE IF bytesin <= 0
           THEN [err |-> "OK", data |-> buffer, pos |-> offset, calls |-> k + 1]
           ELSE read_loop(node, offset + bytesin, size, pattern, k + 1,
                          buffer \o SubSeq(ContentOf(node), offset + 1, offset + bytesin))

Patterns == [1..MaxReads -> 0..MaxChunk]

\* read past its two checks: seek to the offset (SeekFrom::Start of a
\* non-negative offset, which does not fail), fill the buffer, reply.
read_file(fh, offset, size, pattern) ==
  LET file == open_files[fh]
      r == read_loop(file.node, offset, size, pattern, 1, <<>>)
  IN  /\ open_files' = [open_files EXCEPT ![fh].pos = r.pos]
      /\ reply' = IF r.err = "OK" THEN ReplyWith("read", r.data)
                  ELSE ReplyError("read", r.err)
      /\ fscalls' = r.calls
      /\ UNCHANGED <<inode_map, open_dirs, inuse_fhs, gone>>

\* read that looks the handle up before it looks at the offset.
read_handle_first(fh, offset, size, pattern) ==
  /\ req' = Request("read", 0, "", fh, offset, size, {})
  /\ IF fh \notin DOMAIN open_files
     THEN /\ reply' = ReplyError("read", "EBADFD")
          /\ fscalls' = 0
          /\ UNCHANGED <<registers, gone>>
     ELSE IF offset < 0
     THEN /\ reply' = ReplyError("read", "EINVAL")
          /\ fscalls' = 0
          /\ UNCHANGED <<registers, gone>>
     ELSE read_file(fh, offset, size, pattern)
  /\ HighWater

\* read that looks the handle up in open_dirs.
read_wrong_registry(fh, offset, size, pattern) ==
  /\ req' = Request("read", 0, "", fh, offset, size, {})
  /\ IF offset < 0
     THEN /\ reply' = ReplyError("read", "EINVAL")
          /\ fscalls' = 0
          /\ UNCHANGED <<registers, gone>>
     ELSE IF fh \notin DOMAIN open_dirs
     THEN /\ reply' = ReplyError("read", "EBADFD")
          /\ fscalls' = 0
          /\ UNCHANGED <<registers, gone>>
     ELSE IF fh \in DOMAIN open_files
     THEN read_file(fh, offset, size, pattern)
     ELSE /\ reply' = ReplyWith("read", <<>>)
          /\ fscalls' = 0
          /\ UNCHANGED <<registers, gone>>
  /\ HighWater

read(fh, offset, size, pattern) ==
  /\ req' = Request("read", 0, "", fh, offset, size, {})
  /\ IF offset < 0
     THEN /\ reply' = ReplyError("read", "EINVAL")
          /\ fscalls' = 0
          /\ UNCHANGED <<registers, gone>>
     ELSE IF fh \notin DOMAIN open_files
     THEN /\ reply' = ReplyError("read", "EBADFD")
          /\ fscalls' = 0
          /\ UNCHANGED <<registers, gone>>
     ELSE read_file(fh, offset, size, pattern)
  /\ HighWater

\* release that returns early when the handle is not in open_files.
release_checked(fh) ==
  /\ req' = Request("release", 0, "", fh, 0, 0, {})
  /\ reply' = ReplyWith("release", <<>>)
  /\ fscalls' = 0
  /\ IF fh \in DOMAIN open_files
     THEN /\ open_files' = Remove(open_files, fh)
          /\ inuse_fhs' = inuse_fhs \ {fh}
          /\ UNCHANGED <<inode_map, open_dirs, gone>>
     ELSE UNCHANGED <<registers, gone>>
  /\ HighWater

release(fh) ==
  /\ req' = Request("release", 0, "", fh, 0, 0, {})
  /\ open_files' = Remove(open_files, fh)
  /\ inuse_fhs' = inuse_fhs \ {fh}
  /\ reply' = ReplyWith("release", <<>>)
  /\ fscalls' = 0
  /\ UNCHANGED <<inode_map, open_dirs, gone>>
  /\ HighWater

\* create that takes a handle before it refuses.
create_leaks ==
  /\ req' = Request("create", 0, "", 0, 0, 0, {})
  /\ reply' = ReplyError("create", "EROFS")
  /\ fscalls' = 0
  /\ inuse_fhs' = get_fh(inuse_fhs).inuse_fhs
  /\ UNCHANGED <<inode_map, open_dirs, open_files, gone>>
  /\ HighWater

create ==
  /\ req' = Request("create", 0, "", 0, 0, 0, {})
  /\ reply' = ReplyError("create", "EROFS")
  /\ fscalls' = 0
  /\ UNCHANGED <<registers, gone>>
  /\ HighWater

setattr ==
  /\ req' = Request("setattr", 0, "", 0, 0, 0, {})
  /\ reply' = ReplyError("setattr", "EROFS")
  /\ fscalls' = 0
  /\ UNCHANGED <<registers, gone>>
  /\ HighWater

setxattr ==
  /\ req' = Request("setxattr", 0, "", 0, 0, 0, {})
  /\ reply' = ReplyError("setxattr", "EROFS")
  /\ fscalls' = 0
  /\ UNCHANGED <<registers, gone>>
  /\ HighWater

statfs ==
  /\ req' = Request("statfs", 0, "", 0, 0, 0, {})
  /\ reply' = ReplyError("statfs", "EPERM")
  /\ fscalls' = 0
  /\ UNCHANGED <<registers, gone>>
  /\ HighWater

\* The source tree changes under the mount: a file, or an empty directory, is
\* deleted.
Unlink(n) ==
  /\ req' = NoRequest
  /\ n \in TreeNodes \ gone
  /\ \A m \in TreeNodes \ gone : ~(Len(m) > Len(n) /\ Prefix(m, Len(n)) = n)
  /\ gone' = gone \cup {n}
  /\ reply' = NoReply
  /\ fscalls' = 0
  /\ UNCHANGED registers
  /\ HighWater

-----------------------------------------------------------------------------
(* The workloads.    The handlers are the same in each; a workload is what *)
(* the client sends and what the source tree does meanwhile.               *)

(* The inode registry: every inode argument, every fault, deletions.  The  *)
(* client holds at most MaxHeld handles and releases each handle with the  *)
(* release that matches its open.                                          *)
NextNames ==
  \/ \E ino \in Inodes, fault \in Faults : getattr(ino, fault)
  \/ \E parent \in Inodes, name \in Names, fault \in Faults :
        lookup(parent, name, fault)
  \/ \E ino \in Inodes, fault \in Faults, lfault \in ListFaults :
        Cardinality(inuse_fhs) < MaxHeld /\ opendir(ino, fault, lfault)
  \/ \E ino \in Inodes, flags \in FlagSets, fault \in Faults :
        Cardinality(inuse_fhs) < MaxHeld /\ open(ino, flags, fault)
  \/ \E fh \in DOMAIN open_dirs : releasedir(fh)
  \/ \E fh \in DOMAIN open_files : release(fh)
  \/ create
  \/ setattr
  \/ setxattr
  \/ statfs
  \/ \E n \in TreeNodes : Unlink(n)

SpecNames == Init /\ [][NextNames]_vars

(* The handle allocator: the root, d and f are opened while at most        *)
(* MaxOpen handles are in use, and the client sends release and releasedir *)
(* with any handle argument.  No fault, no deletion.                       *)
NextAlloc ==
  \/ \E name \in {"d", "f"} : lookup(1, name, "none")
  \/ \E ino \in Inodes :
        Cardinality(inuse_fhs) < MaxOpen /\ opendir(ino, "none", "none")
  \/ \E ino \in Inodes :
        Cardinality(inuse_fhs) < MaxOpen /\ open(ino, {}, "none")
  \/ \E fh \in Handles : releasedir(fh)
  \/ \E fh \in Handles : release(fh)

SpecAlloc == Init /\ [][NextAlloc]_vars

(* The well-behaved client: it opens the root, d and f while at most       *)
(* MaxOpen handles are in use, with every flag set and fault, and sends    *)
(* releasedir only for a handle that opendir returned and release only for *)
(* a handle that open returned, each once.                                 *)
NextClient ==
  \/ \E name \in {"d", "f"} : lookup(1, name, "none")
  \/ \E ino \in Inodes, fault \in Faults, lfault \in ListFaults :
        Cardinality(inuse_fhs) < MaxOpen /\ opendir(ino, fault, lfault)
  \/ \E ino \in Inodes, flags \in FlagSets, fault \in Faults :
        Cardinality(inuse_fhs) < MaxOpen /\ open(ino, flags, fault)
  \/ \E fh \in DOMAIN open_dirs : releasedir(fh)
  \/ \E fh \in DOMAIN open_files : release(fh)

SpecClient == Init /\ [][NextClient]_vars

\* The names and inode arguments of the path workload: "." is an entry of every
\* directory, and the root's real inode number is what a lookup of it replies.
PathNames == {"d", "f", "."}
PathInodes == Inodes \cup {InoOf(RootNode)}

(* The paths of the inode registry: lookup with every parent and the names *)
(* d, f and ".", composing paths of at most MaxPath components; getattr,   *)
(* open and opendir on every inode, one handle at a time, released by the  *)
(* matching release.  No fault; the source tree changes by deletions only. *)
NextPaths ==
  \/ \E parent \in PathInodes, name \in PathNames :
        /\ (parent # 1 /\ parent \in DOMAIN inode_map)
             => Len(inode_map[parent]) < MaxPath
        /\ lookup(parent, name, "none")
  \/ \E ino \in PathInodes : getattr(ino, "none")
  \/ \E ino \in PathInodes : inuse_fhs = {} /\ opendir(ino, "none", "none")
  \/ \E ino \in PathInodes : inuse_fhs = {} /\ open(ino, {}, "none")
  \/ \E fh \in DOMAIN open_dirs : releasedir(fh)
  \/ \E fh \in DOMAIN open_files : release(fh)
  \/ \E n \in TreeNodes : Unlink(n)

SpecPaths == Init /\ [][NextPaths]_vars

\* What the directory stream and the file deliver is drawn only for the requests
\* that get as far as the stream or the file.
ReachesDir(fh, offset) == offset >= 0 /\ fh \in DOMAIN open_dirs
ReachesFile(fh, offset) == offset >= 0 /\ fh \in DOMAIN open_files
NoPattern == [k \in 1..MaxReads |-> MaxChunk]

(* read and readdir: every offset, size, pattern of partial reads, buffer  *)
(* capacity and fault, on every handle argument.  The client opens the     *)
(* root, d and f, one at a time, and sends release and releasedir with any *)
(* handle argument; f is deleted meanwhile.                                *)
NextIO ==
  \/ \E name \in {"d", "f"} : lookup(1, name, "none")
  \/ \E ino \in Inodes : inuse_fhs = {} /\ opendir(ino, "none", "none")
  \/ \E ino \in Inodes : inuse_fhs = {} /\ open(ino, {}, "none")
  \/ \E fh \in IOHandles, offset \in {-1, 0} :
        \E cap \in IF ReachesDir(fh, offset) THEN 1..MaxCap ELSE {1},
           dfault \in IF ReachesDir(fh, offset) THEN Faults ELSE {"none"},
           faultAt \in IF ReachesDir(fh, offset) THEN 0..MaxCap ELSE {0} :
           readdir(fh, offset, cap, dfault, faultAt)
  \/ \E fh \in IOHandles, offset \in -1..MaxOffset, size \in 0..MaxSize :
        \E pattern \in IF ReachesFile(fh, offset) THEN Patterns ELSE {NoPattern} :
           read(fh, offset, size, pattern)
  \/ \E fh \in IOHandles : releasedir(fh)
  \/ \E fh \in IOHandles : release(fh)
  \/ Unlink(NodeF)

SpecIO == Init /\ [][NextIO]_vars

-----------------------------------------------------------------------------
(* The claims. *)

\* The smallest non-negative integer that is not in S.
MinFree(S) ==
  CHOOSE n \in 0..Cardinality(S) : n \notin S /\ \A m \in 0..(n - 1) : m \in S

Acquired == req'.op \in {"opendir", "open"} /\ reply'.err = "OK"

\* C1: every acquisition (an opendir or an open that replies a handle) returns
\* the smallest non-negative integer that is not in the in-use set at that
\* moment and adds it to the in-use set.
C1_SmallestFree ==
  [][Acquired =>
       /\ reply'.out[1] = MinFree(inuse_fhs)
       /\ inuse_fhs' = inuse_fhs \cup {reply'.out[1]}]_vars

\* Handle 0 is acquired while handle 1 is in use: a released handle, the
\* smallest gap, is handed out again.
C1_Witness ==
  /\ req.op \in {"opendir", "open"}
  /\ reply.err = "OK"
  /\ reply.out[1] = 0
  /\ 1 \in inuse_fhs

\* C2: no handle is a key of the open-directory registry and of the open-file
\* registry at the same time.
C2_NoCollision == DOMAIN open_dirs \cap DOMAIN open_files = {}

\* C3: inode 1 is in the inode registry and resolves to the source root.
C3_RootIdentity ==
  /\ 1 \in DOMAIN inode_map
  /\ Resolve(RootNode, inode_map[1], "none") = [err |-> "OK", node |-> RootNode]

\* C4: when getattr, open or opendir on an inode replies ENOENT, the inode is
\* not in the inode registry afterwards; and a getattr on an inode that is not
\* in the registry replies ENOENT without a real filesystem call.
C4_Pruning ==
  [][/\ (req'.op \in {"getattr", "open", "opendir"} /\ reply'.err = "ENOENT")
          => req'.ino \notin DOMAIN inode_map'
     /\ (req'.op = "getattr" /\ req'.ino \notin DOMAIN inode_map)
          => (reply'.err = "ENOENT" /\ fscalls' = 0)]_vars

\* C5: an entry leaves the inode registry only in a getattr, open or opendir on
\* that inode that replies ENOENT; one that replies another error leaves the
\* registry unchanged.
C5_OnlyNotFoundPrunes ==
  [][/\ \A ino \in DOMAIN inode_map \ DOMAIN inode_map' :
          /\ req'.op \in {"getattr", "open", "opendir"}
          /\ req'.ino = ino
          /\ reply'.err = "ENOENT"
     /\ (req'.op \in {"getattr", "open", "opendir"}
           /\ reply'.err \notin {"OK", "ENOENT"})
          => inode_map' = inode_map]_vars

\* C6: create, setattr and setxattr reply EROFS, statfs replies EPERM, and
\* each leaves the inode registry, the in-use set and both open registries
\* unchanged.
C6_ReadOnly ==
  [][/\ req'.op \in {"create", "setattr", "setxattr"}
          => (reply'.err = "EROFS" /\ UNCHANGED registers)
     /\ req'.op = "statfs"
          => (reply'.err = "EPERM" /\ UNCHANGED registers)]_vars

\* A refused statfs in a state where the registry holds looked-up inodes and
\* a handle is in use.
C6_Witness ==
  /\ req.op = "statfs"
  /\ reply.err = "EPERM"
  /\ inuse_fhs # {}
  /\ Cardinality(DOMAIN inode_map) > 1

\* C7: read and readdir with a negative offset reply EINVAL whatever the
\* handle, and leave the registries, the in-use set and the position of every
\* open stream and file unchanged.
C7_NegativeOffset ==
  [][(req'.op \in {"read", "readdir"} /\ req'.offset < 0)
       => (reply'.err = "EINVAL" /\ UNCHANGED registers)]_vars

\* A read with a negative offset on a live file handle whose position an
\* earlier read has moved.
C7_Witness ==
  /\ req.op = "read"
  /\ req.offset < 0
  /\ req.fh \in DOMAIN open_files
  /\ open_files[req.fh].pos > 0

\* The min(size, max(0, L - offset)) bytes of `content` from `offset` on.
Slice(content, offset, size) ==
  [i \in 1..Min2(size, Max2(0, Len(content) - offset)) |-> content[offset + i]]

\* C8: a read with a non-negative offset on a live handle of a regular file,
\* none of whose File::read calls fails, replies exactly the
\* min(size, max(0, L - offset)) bytes of the file from offset on.
C8_ReadExact ==
  [][(/\ req'.op = "read"
      /\ req'.offset >= 0
      /\ req'.fh \in DOMAIN open_files
      /\ ModeOf(open_files[req'.fh].node) = "S_IFREG"
      /\ reply'.err # "EIO")
       => /\ reply'.err = "OK"
          /\ reply'.out = Slice(ContentOf(open_files[req'.fh].node),
                                req'.offset, req'.size)]_vars

\* A read of more than the file holds from inside it: the reply is shorter
\* than asked, and not empty.
C8_Witness ==
  /\ req.op = "read"
  /\ reply.err = "OK"
  /\ req.offset > 0
  /\ 0 < Len(reply.out)
  /\ Len(reply.out) < req.size

\* C9: release and releasedir reply success for every handle, and afterwards
\* the handle is neither in the in-use set nor in the registry the operation
\* targets.
C9_ReleaseNeverFails ==
  [][/\ req'.op = "release"
          => /\ reply'.err = "OK"
             /\ req'.fh \notin inuse_fhs'
             /\ req'.fh \notin DOMAIN open_files'
     /\ req'.op = "releasedir"
          => /\ reply'.err = "OK"
             /\ req'.fh \notin inuse_fhs'
             /\ req'.fh \notin DOMAIN open_dirs']_vars

\* A release of a handle that belongs to the open-directory registry.
C9_Witness ==
  /\ req.op = "release"
  /\ reply.err = "OK"
  /\ req.fh \in DOMAIN open_dirs

\* C10, as stated: readdir on a handle that is not a key of open_dirs and read
\* on a handle that is not a key of open_files reply EBADFD and change no
\* state.
C10_BadHandle ==
  [][/\ (req'.op = "readdir" /\ req'.fh \notin DOMAIN open_dirs)
          => (reply'.err = "EBADFD" /\ UNCHANGED registers)
     /\ (req'.op = "read" /\ req'.fh \notin DOMAIN open_files)
          => (reply'.err = "EBADFD" /\ UNCHANGED registers)]_vars

\* C10, amended: the same for the requests whose offset is not negative.
C10_BadHandleValidOffset ==
  [][/\ (req'.op = "readdir" /\ req'.offset >= 0 /\ req'.fh \notin DOMAIN open_dirs)
          => (reply'.err = "EBADFD" /\ UNCHANGED registers)
     /\ (req'.op = "read" /\ req'.offset >= 0 /\ req'.fh \notin DOMAIN open_files)
          => (reply'.err = "EBADFD" /\ UNCHANGED registers)]_vars

\* A read that replies EBADFD on a handle of the open-directory registry.
C10_Witness ==
  /\ req.op = "read"
  /\ reply.err = "EBADFD"
  /\ req.fh \in DOMAIN open_dirs

\* C11: open with O_APPEND, O_CREAT or O_TRUNC set replies EROFS for every
\* inode argument, in the registry or not, allocates no handle and leaves the
\* in-use set, both open registries and the inode registry unchanged.
C11_OpenReadOnly ==
  [][(req'.op = "open" /\ req'.flags \cap OpenMask # {})
       => (reply'.err = "EROFS" /\ reply'.out = <<>> /\ UNCHANGED registers)]_vars

\* A refused open for writing on an inode that is not in the registry.
C11_Witness ==
  /\ req.op = "open"
  /\ req.flags \cap OpenMask # {}
  /\ reply.err = "EROFS"
  /\ req.ino \notin DOMAIN inode_map

\* C12: a lookup that fails replies the error (ENOENT, without a real
\* filesystem call, when the parent is not 1 and not in the registry; the
\* stat's error otherwise) and leaves the inode registry unchanged.
C12_FailedLookupFrame ==
  [][(req'.op = "lookup" /\ reply'.err # "OK")
       => /\ inode_map' = inode_map
          /\ (req'.ino # 1 /\ req'.ino \notin DOMAIN inode_map)
               => (reply'.err = "ENOENT" /\ fscalls' = 0)
          /\ (req'.ino = 1 \/ req'.ino \in DOMAIN inode_map)
               => (reply'.err \in {"ENOENT", "ENOTDIR", "EACCES"} /\ fscalls' = 1)]_vars

\* A lookup below a recorded directory that has been deleted: the stat fails
\* with ENOENT and the parent stays recorded.
C12_Witness ==
  /\ req.op = "lookup"
  /\ reply.err = "ENOENT"
  /\ req.ino # 1
  /\ req.ino \in DOMAIN inode_map
  /\ fscalls = 1

\* The node a successful getattr or lookup has stat'ed.
AttrNode ==
  IF req'.op = "getattr" THEN Resolve(RootNode, inode_map[req'.ino], "none").node
  ELSE Resolve(RootNode,
               Append(IF req'.ino = 1 THEN <<>> ELSE inode_map[req'.ino], req'.name),
               "none").node

\* C13: the attributes that a successful lookup or getattr replies hold the
\* file's real inode number in the inode field and, for a regular file of n
\* bytes, n in the size field.
C13_RealSize ==
  [][(req'.op \in {"lookup", "getattr"} /\ reply'.err = "OK")
       => /\ reply'.out[1].ino = InoOf(AttrNode)
          /\ ModeOf(AttrNode) = "S_IFREG"
               => reply'.out[1].size = Len(ContentOf(AttrNode))]_vars

\* The node that entry `e` of a readdir reply on handle fh names.
EntryNode(fh, e) == Append(open_dirs[fh].dir, e.name)

\* C14: every entry of a readdir reply carries the entry's own real inode
\* number and the kind that stat_to_fileattr gives for the entry's stat, the
\* inode and kind a lookup of the entry reports.
C14_EntryKind ==
  [][(req'.op = "readdir" /\ reply'.err = "OK")
       => \A i \in DOMAIN reply'.out :
            LET e == reply'.out[i]
                attr == stat_to_fileattr(StatOf(EntryNode(req'.fh, e)))
            IN  e.ino = attr.ino /\ e.kind = attr.kind]_vars

\* C15: the handle that an opendir or an open obtains is not a key of the
\* open-directory registry or of the open-file registry before it is stored.
C15_FreshHandle ==
  [][Acquired =>
       reply'.out[1] \notin DOMAIN open_dirs \cup DOMAIN open_files]_vars

\* C16: while releasedir is sent only for handles opendir returned and release
\* only for handles open returned, each once: the in-use set is the union of
\* the key sets of the two open registries, which are disjoint; and when every
\* handle has been released (no handle is in use) both registries are empty.
C16_InUseIsRegistries ==
  /\ inuse_fhs = DOMAIN open_dirs \cup DOMAIN open_files
  /\ DOMAIN open_dirs \cap DOMAIN open_files = {}
  /\ inuse_fhs = {} => (open_dirs = EmptyMap /\ open_files = EmptyMap)

\* The directory handle 0 has been released while the file handle 1 is held.
C16_Witness ==
  /\ req.op = "releasedir"
  /\ req.fh = 0
  /\ DOMAIN open_dirs = {}
  /\ DOMAIN open_files = {1}
  /\ inuse_fhs = {1}

\* The names of the entries of a readdir reply, in the reply's order.
EntryNames(out) == [i \in DOMAIN out |-> out[i].name]

\* C17: a readdir that replies entries takes them from the front of what the
\* stream of its handle has not yet delivered and leaves the rest in the
\* stream, whatever the capacity of the reply buffer: the entries replied
\* followed by the entries still to come are the entries that were to come,
\* so the replies of one handle together deliver every entry once, in order.
C17_EveryEntryOnce ==
  [][(req'.op = "readdir" /\ reply'.err = "OK" /\ gone = {})
       => EntryNames(reply'.out) \o open_dirs'[req'.fh].rest
            = Fill(open_dirs[req'.fh]).rest]_vars

\* C18: every handle in the in-use set is less than the largest number of
\* handles that have been in use at the same time so far, and every
\* acquisition returns a handle that is at most the number of handles in use
\* just before it.
C18_HighWaterMark ==
  [][/\ \A fd \in inuse_fhs' : fd < high_water'
     /\ Acquired => reply'.out[1] <= Cardinality(inuse_fhs)]_vars

\* An acquisition below the high-water mark: a handle is handed out again
\* while fewer handles are in use than there have been.
C18_Witness ==
  /\ req.op \in {"opendir", "open"}
  /\ reply.err = "OK"
  /\ reply.out[1] + 1 < high_water
  /\ Cardinality(inuse_fhs) < high_water

\* The path a lookup composes: the parent's path, empty for inode 1, and the
\* name.
LookupPath == Append(IF req'.ino = 1 THEN <<>> ELSE inode_map[req'.ino], req'.name)

\* The node the path recorded for the inode of the request resolves to.
RecordedNode == Resolve(RootNode, inode_map[req'.ino], "none").node

\* C19: a request is one step, so the state the next request sees is the state
\* the last one left.  After a successful lookup the inode it replied is
\* recorded with the parent's path joined with the name; a getattr, open or
\* opendir that succeeds on a recorded inode has resolved the recorded path;
\* and a recorded path goes only in a getattr, open or opendir on its inode
\* and changes only in a lookup that replies its inode.
C19_LookupObserved ==
  [][/\ (req'.op = "lookup" /\ reply'.err = "OK")
          => /\ reply'.out[1].ino \in DOMAIN inode_map'
             /\ Norm(inode_map'[reply'.out[1].ino]) = Norm(LookupPath)
     /\ (req'.op = "getattr" /\ reply'.err = "OK")
          => reply'.out[1] = stat_to_fileattr(StatOf(RecordedNode))
     /\ (req'.op = "open" /\ reply'.err = "OK")
          => open_files'[reply'.out[1]].node = RecordedNode
     /\ (req'.op = "opendir" /\ reply'.err = "OK")
          => open_dirs'[reply'.out[1]].dir = RecordedNode
     /\ \A i \in DOMAIN inode_map :
          /\ i \notin DOMAIN inode_map'
               => (req'.op \in {"getattr", "open", "opendir"} /\ req'.ino = i)
          /\ (i \in DOMAIN inode_map' /\ inode_map'[i] # inode_map[i])
               => (req'.op = "lookup" /\ reply'.err = "OK" /\ reply'.out[1].ino = i)]_vars

\* A getattr that succeeds on the socket s, which a lookup below the looked-up
\* directory d has recorded.
C19_Witness ==
  /\ req.op = "getattr"
  /\ reply.err = "OK"
  /\ req.ino = InoOf(NodeS)
  /\ reply.out[1].kind = "Socket"
  /\ inode_map[req.ino] = <<"d", "s">>

\* C20: with lookup, getattr, open and opendir over a source tree that changes
\* by deletions only, no path is the value of two keys of the inode registry,
\* and a lookup that replies an inode number that is already a key overwrites
\* that key's path and adds no key.
C20_RegistryConsistent ==
  [][/\ \A i, j \in DOMAIN inode_map' :
          inode_map'[i] = inode_map'[j] => i = j
     /\ (req'.op = "lookup" /\ reply'.err = "OK"
           /\ reply'.out[1].ino \in DOMAIN inode_map)
          => /\ DOMAIN inode_map' = DOMAIN inode_map
             /\ inode_map'[reply'.out[1].ino] = LookupPath]_vars
====
